---------------------------- MODULE Spec2Model ----------------------------
(***************************************************************************)
(* A model of swinstall_stack: the stack parser with its schema registry,  *)
(* the schema-1 and schema-2 resolvers (current_at, update) and their      *)
(* record codecs (from_attrs, new, version, re-encoding).                  *)
(*                                                                         *)
(* Strings are sequences of lexemes: a lexeme is an indivisible piece of   *)
(* text (a whole timestamp such as "20161213-093146", the separator "_",   *)
(* a revision id, a token such as "True").  str::split, format! and        *)
(* to_lowercase are computed on these sequences.  An xml stream is the     *)
(* sequence of events quick_xml's Reader::read_event yields before Eof.    *)
(***************************************************************************)
EXTENDS Integers, Sequences, FiniteSets, TLC

VARIABLES
    registry,        \* SwinstallParser.registry: schema id -> SchemaWrapper
    default_schema,  \* SwinstallParser.default_schema: Option<String>
    reader,          \* the events of the xml stream an operation reads
    writer,          \* the events the last update wrote
    last             \* the last call: its name, its arguments and its result

vars == <<registry, default_schema, reader, writer, last>>

-----------------------------------------------------------------------------
(* Bounds of the model *)

\* the largest number of child elements of a stream the model starts from
MaxElts == 3

\* the largest number of lexemes of a version token given to Elt::new
MaxTokenLen == 3

\* the number of resolver objects of each schema a caller can register
MaxInstances == 2

-----------------------------------------------------------------------------
(* Option and Result *)

None == <<>>
Some(x) == <<x>>

Ok(v) == [ok |-> TRUE, val |-> v]
Err(e) == [ok |-> FALSE, err |-> e]
\* a call that aborts the program (panic!, unimplemented!, a failed assert!)
Panic(why) == [ok |-> FALSE, panic |-> why]

IsOk(r) == r.ok
IsErr(r) == ~r.ok /\ "err" \in DOMAIN r
IsPanic(r) == ~r.ok /\ "panic" \in DOMAIN r

-----------------------------------------------------------------------------
(* errors.rs: the error kinds the modelled code returns *)

NoDefaultSchema == "NoDefaultSchema"
NoCurrentFound == "NoCurrentFound"
\* declared for a stack with no path attribute; no code returns it
NoPathInXml == "NoPathInXml"
NoFileNameFromPath == "NoFileNameFromPath"
MissingEltAttribute == "MissingEltAttribute"
ChronoParseError == "ChronoParseError"
QuckXmlError == "QuckXmlError"
\* RuntimeError(String): one value per message the code builds
RuntimeErrorNoReader == "RuntimeError(Unable to get reader for schema)"
RuntimeErrorInvalidInput == "RuntimeError(invalid input)"

-----------------------------------------------------------------------------
(* constants.rs *)

TAG_ELT == "elt"

\* The timestamps of the model, oldest first, each matching DATETIME_FMT
\* ("%Y%m%d-%H%M%S").  A NaiveDateTime is the index of its text here; 0 is a
\* time before all of them.
Timestamps == <<"20161213-093146", "20180702-144204", "20181220-090624">>

DateTimes == 0..Len(Timestamps)

\* NaiveDateTime::parse_from_str(s, DATETIME_FMT): the string must be exactly
\* one timestamp; anything before or after it, or nothing, is a parse error.
parse_from_str(s) ==
    IF Len(s) = 1 /\ \E i \in DOMAIN Timestamps : Timestamps[i] = s[1]
    THEN Ok(CHOOSE i \in DOMAIN Timestamps : Timestamps[i] = s[1])
    ELSE Err(ChronoParseError)

\* the text of a NaiveDateTime of the model
TimestampStr(i) == <<Timestamps[i]>>

-----------------------------------------------------------------------------
(* Strings *)

\* str::split(sep): the pieces between the separators; always at least one
RECURSIVE SplitFrom(_, _, _, _)
SplitFrom(s, sep, i, piece) ==
    IF i > Len(s) THEN <<piece>>
    ELSE IF s[i] = sep THEN <<piece>> \o SplitFrom(s, sep, i + 1, <<>>)
    ELSE SplitFrom(s, sep, i + 1, Append(piece, s[i]))

Split(s, sep) == SplitFrom(s, sep, 1, <<>>)

\* str::to_lowercase on the lexemes of the model
LowerLexeme(c) ==
    CASE c = "True" -> "true"
      [] c = "TRUE" -> "true"
      [] c = "False" -> "false"
      [] c = "FALSE" -> "false"
      [] OTHER -> c

to_lowercase(s) == [i \in DOMAIN s |-> LowerLexeme(s[i])]

-----------------------------------------------------------------------------
(* pybool.rs *)

PyTrue == "Pybool::True"
PyFalse == "Pybool::False"

Pybool_from_str(value) ==
    IF value = <<"True">> \/ value = <<"true">> THEN Ok(PyTrue)
    ELSE IF value = <<"False">> \/ value = <<"false">> THEN Ok(PyFalse)
    ELSE Err(RuntimeErrorInvalidInput)

as_bool(p) == p = PyTrue

Pybool_to_string(p) == IF p = PyTrue THEN <<"True">> ELSE <<"False">>

-----------------------------------------------------------------------------
(* xml events and attributes *)

\* an attribute list is a sequence of <<key, value>> pairs, in document order
Attr(k, v) == <<k, v>>

HasAttr(attrs, k) == \E i \in DOMAIN attrs : attrs[i][1] = k

\* the loops of from_attrs keep the last value seen for a key
AttrValue(attrs, k) ==
    LET idx == {i \in DOMAIN attrs : attrs[i][1] = k}
    IN attrs[CHOOSE i \in idx : \A j \in idx : j <= i][2]

AttrKeys(attrs) == {attrs[i][1] : i \in DOMAIN attrs}

StartEv(name, attrs) == [type |-> "Start", name |-> name, attrs |-> attrs]
EmptyEv(name, attrs) == [type |-> "Empty", name |-> name, attrs |-> attrs]
EndEv(name) == [type |-> "End", name |-> name, attrs |-> <<>>]
TextEv == [type |-> "Text", name |-> "", attrs |-> <<>>]
\* read_event returns Err here: malformed markup, or the read failed
ErrorEv == [type |-> "Error", name |-> "", attrs |-> <<>>]

-----------------------------------------------------------------------------
(* schemas/one.rs: the schema-1 record *)

PLACEHOLDER_VERSION == <<"10000101-010101">>

\* Elt::new keeping the first piece and no revision
One_Elt_new_drop_revision(is_current, version) ==
    [is_current |-> is_current, version |-> Split(version, "_")[1], revision |-> None]

\* Elt::new taking the placeholder for a token with no separator
One_Elt_new_placeholder(is_current, version) ==
    LET pieces == Split(version, "_")
    IN [is_current |-> is_current,
        version |-> IF Len(pieces) = 1 THEN PLACEHOLDER_VERSION ELSE pieces[1],
        revision |-> IF Len(pieces) = 2 THEN Some(pieces[2]) ELSE None]

\* Elt::new: split the token on "_"; with exactly two pieces the second is the
\* revision; the version is the last piece left.
One_Elt_new(is_current, version) ==
    LET pieces == Split(version, "_")
        revision == IF Len(pieces) = 2 THEN Some(pieces[2]) ELSE None
        rest == IF Len(pieces) = 2 THEN SubSeq(pieces, 1, 1) ELSE pieces
    IN [is_current |-> is_current,
        version |-> IF rest = <<>> THEN PLACEHOLDER_VERSION ELSE rest[Len(rest)],
        revision |-> revision]

\* Elt::from_attrs taking the placeholder for a version that is absent
One_Elt_from_attrs_default_version(attrs) ==
    IF ~HasAttr(attrs, "is_current") THEN Err(MissingEltAttribute)
    ELSE LET b == Pybool_from_str(to_lowercase(AttrValue(attrs, "is_current")))
         IN IF ~b.ok THEN b
            ELSE IF ~HasAttr(attrs, "version")
            THEN Ok(One_Elt_new(b.val, PLACEHOLDER_VERSION))
            ELSE Ok(One_Elt_new(b.val, AttrValue(attrs, "version")))

\* Elt::from_attrs: is_current is lower-cased and parsed as a Pybool first,
\* then the version is read; other attributes are skipped.
One_Elt_from_attrs(attrs) ==
    IF ~HasAttr(attrs, "is_current") THEN Err(MissingEltAttribute)
    ELSE LET b == Pybool_from_str(to_lowercase(AttrValue(attrs, "is_current")))
         IN IF ~b.ok THEN b
            ELSE IF ~HasAttr(attrs, "version") THEN Err(MissingEltAttribute)
            ELSE Ok(One_Elt_new(b.val, AttrValue(attrs, "version")))

\* Elt::version without the revision
One_Elt_version_no_revision(elt) == elt.version

\* Elt::version: the version, then "_" and the revision when there is one
One_Elt_version(elt) ==
    elt.version \o (IF elt.revision = None THEN <<>> ELSE <<"_">> \o elt.revision[1])

\* schemas::ReturnElt
ReturnElt_One(e) == [schema |-> "1", elt |-> e]
ReturnElt_Two(e) == [schema |-> "2", elt |-> e]

\* One::new_elem: the elt tag written for a record; panics on a ReturnElt::Two
One_new_elem(elem) ==
    EmptyEv(TAG_ELT, <<Attr("is_current", Pybool_to_string(elem.elt.is_current)),
                       Attr("version", elem.elt.version)>>)

\* what a scan returns: its result and the number of events it read
Scanned(result, pos) == [result |-> result, pos |-> pos]

\* One::current_at with last_elt updated for every record, in range or not
RECURSIVE One_scan_keep_any(_, _, _, _, _, _)
One_scan_keep_any(events, pos, datetime, current, in_datetime, last_elt) ==
    IF pos > Len(events) THEN Scanned(Err(NoCurrentFound), pos)
    ELSE
      LET e == events[pos]
          isElt == e.type = "Empty" /\ e.name = "elt"
          elt == One_Elt_from_attrs(e.attrs)
          dt == parse_from_str(elt.val.version)
      IN
      IF e.type = "Error" THEN Scanned(Err(QuckXmlError), pos)
      ELSE IF isElt /\ ~elt.ok THEN Scanned(elt, pos)
      ELSE IF isElt /\ ~dt.ok THEN Scanned(dt, pos)
      ELSE
        LET in_empty == e.type = "Empty"
            in_dt == IF isElt THEN dt.val <= datetime ELSE in_datetime
            cur == IF isElt THEN as_bool(elt.val.is_current) ELSE current
            lst == IF isElt THEN Some(elt.val) ELSE last_elt
        IN
        IF in_empty /\ ((cur /\ in_dt) \/ ~in_dt)
        THEN IF lst # None
             THEN Scanned(Ok(ReturnElt_One(lst[1])), pos)
             ELSE Scanned(Err(NoCurrentFound), pos)
        ELSE One_scan_keep_any(events, pos + 1, datetime, cur, in_dt, lst)

\* One::current_at keeping the first record in range, not the last
RECURSIVE One_scan_first_in_range(_, _, _, _, _, _)
One_scan_first_in_range(events, pos, datetime, current, in_datetime, last_elt) ==
    IF pos > Len(events) THEN Scanned(Err(NoCurrentFound), pos)
    ELSE
      LET e == events[pos]
          isElt == e.type = "Empty" /\ e.name = "elt"
          elt == One_Elt_from_attrs(e.attrs)
          dt == parse_from_str(elt.val.version)
      IN
      IF e.type = "Error" THEN Scanned(Err(QuckXmlError), pos)
      ELSE IF isElt /\ ~elt.ok THEN Scanned(elt, pos)
      ELSE IF isElt /\ ~dt.ok THEN Scanned(dt, pos)
      ELSE
        LET in_empty == e.type = "Empty"
            in_dt == IF isElt THEN dt.val <= datetime ELSE in_datetime
            cur == IF isElt THEN as_bool(elt.val.is_current) ELSE current
            lst == IF isElt /\ in_dt /\ last_elt = None THEN Some(elt.val) ELSE last_elt
        IN
        IF in_empty /\ ((cur /\ in_dt) \/ ~in_dt)
        THEN IF lst # None
             THEN Scanned(Ok(ReturnElt_One(lst[1])), pos)
             ELSE Scanned(Err(NoCurrentFound), pos)
        ELSE One_scan_first_in_range(events, pos + 1, datetime, cur, in_dt, lst)

\* One::current_at keeping only records flagged current
RECURSIVE One_scan_current_only(_, _, _, _, _, _)
One_scan_current_only(events, pos, datetime, current, in_datetime, last_elt) ==
    IF pos > Len(events) THEN Scanned(Err(NoCurrentFound), pos)
    ELSE
      LET e == events[pos]
          isElt == e.type = "Empty" /\ e.name = "elt"
          elt == One_Elt_from_attrs(e.attrs)
          dt == parse_from_str(elt.val.version)
      IN
      IF e.type = "Error" THEN Scanned(Err(QuckXmlError), pos)
      ELSE IF isElt /\ ~elt.ok THEN Scanned(elt, pos)
      ELSE IF isElt /\ ~dt.ok THEN Scanned(dt, pos)
      ELSE
        LET in_empty == e.type = "Empty"
            in_dt == IF isElt THEN dt.val <= datetime ELSE in_datetime
            cur == IF isElt THEN as_bool(elt.val.is_current) ELSE current
            lst == IF isElt /\ in_dt /\ cur THEN Some(elt.val) ELSE last_elt
        IN
        IF in_empty /\ ((cur /\ in_dt) \/ ~in_dt)
        THEN IF lst # None
             THEN Scanned(Ok(ReturnElt_One(lst[1])), pos)
             ELSE Scanned(Err(NoCurrentFound), pos)
        ELSE One_scan_current_only(events, pos + 1, datetime, cur, in_dt, lst)

\* One::current_at returning at Eof the record it remembered
RECURSIVE One_scan_eof_remembered(_, _, _, _, _, _)
One_scan_eof_remembered(events, pos, datetime, current, in_datetime, last_elt) ==
    IF pos > Len(events)
    THEN IF last_elt # None
         THEN Scanned(Ok(ReturnElt_One(last_elt[1])), pos)
         ELSE Scanned(Err(NoCurrentFound), pos)
    ELSE
      LET e == events[pos]
          isElt == e.type = "Empty" /\ e.name = "elt"
          elt == One_Elt_from_attrs(e.attrs)
          dt == parse_from_str(elt.val.version)
      IN
      IF e.type = "Error" THEN Scanned(Err(QuckXmlError), pos)
      ELSE IF isElt /\ ~elt.ok THEN Scanned(elt, pos)
      ELSE IF isElt /\ ~dt.ok THEN Scanned(dt, pos)
      ELSE
        LET in_empty == e.type = "Empty"
            in_dt == IF isElt THEN dt.val <= datetime ELSE in_datetime
            cur == IF isElt THEN as_bool(elt.val.is_current) ELSE current
            lst == IF isElt /\ in_dt THEN Some(elt.val) ELSE last_elt
        IN
        IF in_empty /\ ((cur /\ in_dt) \/ ~in_dt)
        THEN IF lst # None
             THEN Scanned(Ok(ReturnElt_One(lst[1])), pos)
             ELSE Scanned(Err(NoCurrentFound), pos)
        ELSE One_scan_eof_remembered(events, pos + 1, datetime, cur, in_dt, lst)

\* One::current_at reading on past records after the target while it has
\* remembered none
RECURSIVE One_scan_skip_leading(_, _, _, _, _, _)
One_scan_skip_leading(events, pos, datetime, current, in_datetime, last_elt) ==
    IF pos > Len(events) THEN Scanned(Err(NoCurrentFound), pos)
    ELSE
      LET e == events[pos]
          isElt == e.type = "Empty" /\ e.name = "elt"
          elt == One_Elt_from_attrs(e.attrs)
          dt == parse_from_str(elt.val.version)
      IN
      IF e.type = "Error" THEN Scanned(Err(QuckXmlError), pos)
      ELSE IF isElt /\ ~elt.ok THEN Scanned(elt, pos)
      ELSE IF isElt /\ ~dt.ok THEN Scanned(dt, pos)
      ELSE
        LET in_empty == e.type = "Empty"
            in_dt == IF isElt THEN dt.val <= datetime ELSE in_datetime
            cur == IF isElt THEN as_bool(elt.val.is_current) ELSE current
            lst == IF isElt /\ in_dt THEN Some(elt.val) ELSE last_elt
        IN
        IF in_empty /\ ((cur /\ in_dt) \/ (~in_dt /\ lst # None))
        THEN IF lst # None
             THEN Scanned(Ok(ReturnElt_One(lst[1])), pos)
             ELSE Scanned(Err(NoCurrentFound), pos)
        ELSE One_scan_skip_leading(events, pos + 1, datetime, cur, in_dt, lst)

\* One::current_at: one iteration of the loop per event, Eof after the last.
\* current, in_datetime and last_elt are the loop's state variables.
RECURSIVE One_scan(_, _, _, _, _, _)
One_scan(events, pos, datetime, current, in_datetime, last_elt) ==
    IF pos > Len(events) THEN Scanned(Err(NoCurrentFound), pos)
    ELSE
      LET e == events[pos]
          isElt == e.type = "Empty" /\ e.name = "elt"
          elt == One_Elt_from_attrs(e.attrs)
          dt == parse_from_str(elt.val.version)
      IN
      IF e.type = "Error" THEN Scanned(Err(QuckXmlError), pos)
      ELSE IF isElt /\ ~elt.ok THEN Scanned(elt, pos)
      ELSE IF isElt /\ ~dt.ok THEN Scanned(dt, pos)
      ELSE
        LET in_empty == e.type = "Empty"
            in_dt == IF isElt THEN dt.val <= datetime ELSE in_datetime
            cur == IF isElt THEN as_bool(elt.val.is_current) ELSE current
            lst == IF isElt /\ in_dt THEN Some(elt.val) ELSE last_elt
        IN
        IF in_empty /\ ((cur /\ in_dt) \/ ~in_dt)
        THEN IF lst # None
             THEN Scanned(Ok(ReturnElt_One(lst[1])), pos)
             ELSE Scanned(Err(NoCurrentFound), pos)
        ELSE One_scan(events, pos + 1, datetime, cur, in_dt, lst)

One_current_at(events, datetime) ==
    One_scan(events, 1, datetime, FALSE, FALSE, None).result

\* One::update with Action::Install: one iteration per event; out is what the
\* writer holds so far.  The result carries the writer's content.
Written(result, out) == [result |-> result, out |-> out]

\* Writer::write_event: the event is appended, or the write fails and the
\* writer holds what it held (sink tells whether the underlying io::Write
\* accepts writes)
write_event(out, e, sink) == IF sink THEN Ok(Append(out, e)) ELSE Err(QuckXmlError)

\* writer.write_event(..).is_ok(); with the bool dropped
written_or_not(out, e, sink) ==
    IF write_event(out, e, sink).ok THEN write_event(out, e, sink).val ELSE out

\* the loop of One::update: the writes of start, empty and end tags and of
\* the new elt at Eof drop their result; the write of any other event is
\* asserted; a read error panics
RECURSIVE One_rewrite(_, _, _, _, _)
One_rewrite(events, pos, bselem, out, sink) ==
    IF pos > Len(events) THEN Written(Ok("()"), written_or_not(out, bselem, sink))
    ELSE
      LET e == events[pos]
          elt == One_Elt_from_attrs(e.attrs)
      IN
      IF e.type = "Error" THEN Written(Panic("Error at position"), out)
      ELSE IF e.type = "Empty" /\ e.name = TAG_ELT
      THEN IF ~elt.ok THEN Written(elt, out)
           ELSE IF as_bool(elt.val.is_current)
           THEN One_rewrite(events, pos + 1, bselem,
                   written_or_not(out, EmptyEv(TAG_ELT,
                       <<Attr("is_current", <<"False">>),
                         Attr("version", elt.val.version)>>), sink), sink)
           ELSE One_rewrite(events, pos + 1, bselem, written_or_not(out, e, sink), sink)
      ELSE IF e.type \in {"Start", "Empty", "End"}
      THEN One_rewrite(events, pos + 1, bselem, written_or_not(out, e, sink), sink)
      ELSE IF ~write_event(out, e, sink).ok
      THEN Written(Panic("assertion failed: writer.write_event(e).is_ok()"), out)
      ELSE One_rewrite(events, pos + 1, bselem, write_event(out, e, sink).val, sink)

One_update(action, events, elem, sink) ==
    IF action = "install"
    THEN IF elem.schema # "1" THEN Written(Panic("wrong type of ReturnELt"), <<>>)
         ELSE One_rewrite(events, 1, One_new_elem(elem), <<>>, sink)
    ELSE Written(Panic("not implemented"), <<>>)

-----------------------------------------------------------------------------
(* schemas/two.rs: the schema-2 record *)

Two_Elt_new(action, datetime, hash, version) ==
    [action |-> action, datetime |-> datetime, hash |-> hash, version |-> version]

\* Elt::from_attrs: the four attributes are required, in this order of
\* extraction; other attributes are skipped.
Two_Elt_from_attrs(attrs) ==
    IF \A k \in {"action", "datetime", "hash", "version"} : HasAttr(attrs, k)
    THEN Ok(Two_Elt_new(AttrValue(attrs, "action"), AttrValue(attrs, "datetime"),
                        AttrValue(attrs, "hash"), AttrValue(attrs, "version")))
    ELSE Err(MissingEltAttribute)

Two_Elt_version(elt) == elt.version

\* the elt tag Two::update builds for the record it inserts
Two_bselem(elt) ==
    EmptyEv(TAG_ELT, <<Attr("action", elt.action), Attr("datetime", elt.datetime),
                       Attr("hash", elt.hash), Attr("version", elt.version)>>)

\* Two::current_at with the comparison made strict (dt < target)
RECURSIVE Two_scan_strict(_, _, _)
Two_scan_strict(events, pos, datetime) ==
    IF pos > Len(events) THEN Scanned(Err(NoCurrentFound), pos)
    ELSE
      LET e == events[pos]
          elt == Two_Elt_from_attrs(e.attrs)
          dt == parse_from_str(elt.val.datetime)
      IN
      IF e.type = "Error" THEN Scanned(Err(QuckXmlError), pos)
      ELSE IF e.type = "Empty" /\ e.name = "elt"
      THEN IF ~elt.ok THEN Scanned(elt, pos)
           ELSE IF ~dt.ok THEN Scanned(dt, pos)
           ELSE IF dt.val < datetime
           THEN Scanned(Ok(ReturnElt_Two(elt.val)), pos)
           ELSE Two_scan_strict(events, pos + 1, datetime)
      ELSE Two_scan_strict(events, pos + 1, datetime)

\* Two::current_at reading on to the last elt whose datetime is not after the
\* target
RECURSIVE Two_scan_oldest(_, _, _)
Two_scan_oldest(events, pos, datetime) ==
    IF pos > Len(events) THEN Scanned(Err(NoCurrentFound), pos)
    ELSE
      LET e == events[pos]
          elt == Two_Elt_from_attrs(e.attrs)
          dt == parse_from_str(elt.val.datetime)
          later == Two_scan_oldest(events, pos + 1, datetime)
      IN
      IF e.type = "Error" THEN Scanned(Err(QuckXmlError), pos)
      ELSE IF e.type = "Empty" /\ e.name = "elt"
      THEN IF ~elt.ok THEN Scanned(elt, pos)
           ELSE IF ~dt.ok THEN Scanned(dt, pos)
           ELSE IF dt.val <= datetime /\ ~later.result.ok
           THEN Scanned(Ok(ReturnElt_Two(elt.val)), pos)
           ELSE later
      ELSE later

\* Two::current_at: the first elt whose datetime is not after the target
RECURSIVE Two_scan(_, _, _)
Two_scan(events, pos, datetime) ==
    IF pos > Len(events) THEN Scanned(Err(NoCurrentFound), pos)
    ELSE
      LET e == events[pos]
          elt == Two_Elt_from_attrs(e.attrs)
          dt == parse_from_str(elt.val.datetime)
      IN
      IF e.type = "Error" THEN Scanned(Err(QuckXmlError), pos)
      ELSE IF e.type = "Empty" /\ e.name = "elt"
      THEN IF ~elt.ok THEN Scanned(elt, pos)
           ELSE IF ~dt.ok THEN Scanned(dt, pos)
           ELSE IF dt.val <= datetime
           THEN Scanned(Ok(ReturnElt_Two(elt.val)), pos)
           ELSE Two_scan(events, pos + 1, datetime)
      ELSE Two_scan(events, pos + 1, datetime)

Two_current_at(events, datetime) == Two_scan(events, 1, datetime).result

\* Two::update writing the new elt after the first elt read
RECURSIVE Two_rewrite_after_first(_, _, _, _, _, _)
Two_rewrite_after_first(events, pos, elem, cnt, out, sink) ==
    IF pos > Len(events) THEN Written(Ok("()"), out)
    ELSE
      LET e == events[pos] IN
      IF e.type = "Error" THEN Written(Panic("Error at position"), out)
      ELSE IF e.type = "Empty" /\ e.name = TAG_ELT
      THEN IF cnt = 0
           THEN Two_rewrite_after_first(events, pos + 1, elem, cnt + 1,
                    written_or_not(written_or_not(out, e, sink), Two_bselem(elem), sink), sink)
           ELSE Two_rewrite_after_first(events, pos + 1, elem, cnt, written_or_not(out, e, sink), sink)
      ELSE IF e.type \in {"Start", "End"}
      THEN Two_rewrite_after_first(events, pos + 1, elem, cnt, written_or_not(out, e, sink), sink)
      ELSE IF ~write_event(out, e, sink).ok
      THEN Written(Panic("assertion failed: writer.write_event(e).is_ok()"), out)
      ELSE Two_rewrite_after_first(events, pos + 1, elem, cnt, write_event(out, e, sink).val, sink)

\* Two::update with Action::Install: the new elt is written in front of the
\* first elt read (cnt = 0); every event read is written as it is.  The
\* writes of start, elt and end tags drop their result; the write of any
\* other event is asserted; a read error panics.
RECURSIVE Two_rewrite(_, _, _, _, _, _)
Two_rewrite(events, pos, elem, cnt, out, sink) ==
    IF pos > Len(events) THEN Written(Ok("()"), out)
    ELSE
      LET e == events[pos] IN
      IF e.type = "Error" THEN Written(Panic("Error at position"), out)
      ELSE IF e.type = "Empty" /\ e.name = TAG_ELT
      THEN IF cnt = 0
           THEN Two_rewrite(events, pos + 1, elem, cnt + 1,
                    written_or_not(written_or_not(out, Two_bselem(elem), sink), e, sink), sink)
           ELSE Two_rewrite(events, pos + 1, elem, cnt, written_or_not(out, e, sink), sink)
      ELSE IF e.type \in {"Start", "End"}
      THEN Two_rewrite(events, pos + 1, elem, cnt, written_or_not(out, e, sink), sink)
      ELSE IF ~write_event(out, e, sink).ok
      THEN Written(Panic("assertion failed: writer.write_event(e).is_ok()"), out)
      ELSE Two_rewrite(events, pos + 1, elem, cnt, write_event(out, e, sink).val, sink)

Two_update(action, events, elem, sink) ==
    IF action = "install"
    THEN IF elem.schema # "2" THEN Written(Panic("wrong type of ReturnELt"), <<>>)
         ELSE Two_rewrite(events, 1, elem.elt, 0, <<>>, sink)
    ELSE Written(Panic("not implemented"), <<>>)

\* ReturnElt::version
ReturnElt_version(r) ==
    IF r.schema = "1" THEN One_Elt_version(r.elt) ELSE Two_Elt_version(r.elt)

-----------------------------------------------------------------------------
(* utils.rs: paths.  A path is its components, after the root when it has one *)

Path(root, parts) == [root |-> root, parts |-> parts]

\* PathBuf::pop: drop the last component, if there is one
Path_pop(p) ==
    IF p.parts = <<>> THEN p
    ELSE [p EXCEPT !.parts = SubSeq(p.parts, 1, Len(p.parts) - 1)]

\* Path::file_name: the last component, if there is one
Path_file_name(p) ==
    IF p.parts = <<>> THEN None ELSE Some(p.parts[Len(p.parts)])

\* PathBuf::push of a relative component
Path_push(p, name) == [p EXCEPT !.parts = Append(p.parts, name)]

\* versioned_from_swinstall_stack without the push of the directory's name
versioned_from_swinstall_stack_no_push(filepath, version) ==
    LET pb == Path_pop(filepath)
        file_name == Path_file_name(pb)
    IN IF file_name = None THEN Err(NoFileNameFromPath)
       ELSE Ok(Path_push(Path_pop(pb), file_name[1] \o <<"_">> \o version))

versioned_from_swinstall_stack(filepath, version) ==
    LET pb == Path_pop(filepath)
        file_name == Path_file_name(pb)
    IN IF file_name = None THEN Err(NoFileNameFromPath)
       ELSE Ok(Path_push(Path_push(Path_pop(pb), file_name[1]),
                         file_name[1] \o <<"_">> \o version))

-----------------------------------------------------------------------------
(* schemas.rs and parser.rs: the schema wrappers, the registry, the parser *)

\* a SchemaWrapper holds a One or a Two; instance tells the objects a caller
\* builds apart
SchemaWrappers ==
    {[variant |-> v, instance |-> i] :
        v \in {"SchemaWrapper::One", "SchemaWrapper::Two"}, i \in 1..MaxInstances}

SchemaWrapper_schema(w) ==
    IF w.variant = "SchemaWrapper::One" THEN <<"1">> ELSE <<"2">>

SchemaWrapper_current_at(w, events, datetime) ==
    IF w.variant = "SchemaWrapper::One"
    THEN One_current_at(events, datetime)
    ELSE Two_current_at(events, datetime)

\* SwinstallParser::register leaving an entry that is already there
Registered_keep_first(reg, value) ==
    IF SchemaWrapper_schema(value) \in DOMAIN reg THEN reg
    ELSE [k \in DOMAIN reg \cup {SchemaWrapper_schema(value)} |->
             IF k = SchemaWrapper_schema(value) THEN value ELSE reg[k]]

\* SwinstallParser::register: HashMap::insert under the wrapper's own schema
Registered(reg, value) ==
    [k \in DOMAIN reg \cup {SchemaWrapper_schema(value)} |->
        IF k = SchemaWrapper_schema(value) THEN value ELSE reg[k]]

\* SwinstallParser::get_component
get_component(reg, schema) ==
    IF schema \in DOMAIN reg THEN Some(reg[schema]) ELSE None

\* SwinstallParser::set_default_schema storing the identifier unchecked
Parser_set_default_schema_unchecked(reg, dflt, schema) ==
    [result |-> TRUE, default_schema |-> Some(schema)]

\* SwinstallParser::set_default_schema: the bool returned and the default
\* the parser holds afterwards
Parser_set_default_schema(reg, dflt, schema) ==
    IF schema \notin DOMAIN reg
    THEN [result |-> FALSE, default_schema |-> dflt]
    ELSE [result |-> TRUE, default_schema |-> Some(schema)]

\* SwinstallParser::schema: the default is required first; a schema attribute
\* of the tag then replaces it
Parser_schema(dflt, e) ==
    IF dflt = None THEN Err(NoDefaultSchema)
    ELSE IF HasAttr(e.attrs, "schema") THEN Ok(AttrValue(e.attrs, "schema"))
    ELSE Ok(dflt[1])

\* SwinstallParser::current_version
Parser_current_version(reg, events, schema, datetime) ==
    LET elt_reader == get_component(reg, schema)
    IN IF elt_reader = None THEN Err(RuntimeErrorNoReader)
       ELSE SchemaWrapper_current_at(elt_reader[1], events, datetime)

\* SwinstallParser::current_at taking any start tag for the root
RECURSIVE Parser_scan_any_root(_, _, _, _, _, _)
Parser_scan_any_root(reg, dflt, events, pos, swinstall_stack, datetime) ==
    IF pos > Len(events) THEN Err(NoCurrentFound)
    ELSE
      LET e == events[pos]
          schema == Parser_schema(dflt, e)
          elt == Parser_current_version(reg, SubSeq(events, pos + 1, Len(events)),
                                        schema.val, datetime)
      IN
      IF e.type = "Error" THEN Err(QuckXmlError)
      ELSE IF e.type = "Start"
      THEN IF ~schema.ok THEN schema
           ELSE IF ~elt.ok THEN elt
           ELSE versioned_from_swinstall_stack(swinstall_stack,
                                               ReturnElt_version(elt.val))
      ELSE Parser_scan_any_root(reg, dflt, events, pos + 1, swinstall_stack, datetime)

\* SwinstallParser::current_at, the loop: one iteration per event.  At the
\* first stack_history start tag the rest of the stream goes to the resolver.
RECURSIVE Parser_scan(_, _, _, _, _, _)
Parser_scan(reg, dflt, events, pos, swinstall_stack, datetime) ==
    IF pos > Len(events) THEN Err(NoCurrentFound)
    ELSE
      LET e == events[pos]
          schema == Parser_schema(dflt, e)
          elt == Parser_current_version(reg, SubSeq(events, pos + 1, Len(events)),
                                        schema.val, datetime)
      IN
      IF e.type = "Error" THEN Err(QuckXmlError)
      ELSE IF e.type = "Start" /\ e.name = "stack_history"
      THEN IF ~schema.ok THEN schema
           ELSE IF ~elt.ok THEN elt
           ELSE versioned_from_swinstall_stack(swinstall_stack,
                                               ReturnElt_version(elt.val))
      ELSE Parser_scan(reg, dflt, events, pos + 1, swinstall_stack, datetime)

\* SwinstallParser::current_at: readfn opens the stream or fails
Parser_current_at(reg, dflt, opened, swinstall_stack, datetime) ==
    IF ~opened.ok THEN opened
    ELSE Parser_scan(reg, dflt, opened.val, 1, swinstall_stack, datetime)

-----------------------------------------------------------------------------
(* The streams the operations are given *)

ROOT == "stack_history"

RECURSIVE SeqsUpTo(_, _)
SeqsUpTo(S, n) ==
    IF n = 0 THEN {<<>>}
    ELSE LET shorter == SeqsUpTo(S, n - 1)
         IN shorter \cup {Append(q, x) : q \in {r \in shorter : Len(r) = n - 1}, x \in S}

\* a child element that is no record
ForeignEmpty == EmptyEv("comment", <<>>)

\* the text between two tags of a pretty-printed document
RECURSIVE Indented(_)
Indented(items) ==
    IF items = <<>> THEN <<>>
    ELSE <<TextEv, Head(items)>> \o Indented(Tail(items))

\* the events after the root's start tag: the children, then the end tag
Body(items) == Indented(items) \o <<TextEv, EndEv(ROOT)>>

Document(rootAttrs, items) == <<StartEv(ROOT, rootAttrs)>> \o Body(items)

\* the elt tags of a stream, in declared order
Elts(events) ==
    SelectSeq(events, LAMBDA e : e.type = "Empty" /\ e.name = TAG_ELT)

Actions == {"install", "rollback", "rollforward"}

\* schema-1 version tokens: TIMESTAMP, TIMESTAMP_REVISION, and a token with
\* two separators
Tokens1 ==
    {TimestampStr(1), TimestampStr(3),
     TimestampStr(2) \o <<"_", "r575055">>,
     <<"x", "_", "r575055", "_">> \o TimestampStr(2)}

Elt1(flag, token) ==
    EmptyEv(TAG_ELT, <<Attr("is_current", flag), Attr("version", token)>>)

Records1 == {Elt1(f, t) : f \in {<<"True">>, <<"False">>}, t \in Tokens1}

Items1 == SeqsUpTo(Records1 \cup {ForeignEmpty}, MaxElts)

\* as the unit tests give them (the tags alone) and as a whole document
Streams1 == Items1 \cup {Document(<<>>, items) : items \in Items1}

\* the records a caller installs: the newest timestamp, with or without a
\* revision
NewTokens1 == {TimestampStr(3), TimestampStr(3) \o <<"_", "r575056">>}

NewElems1 ==
    {ReturnElt_One(One_Elt_new(f, t)) : f \in {PyTrue, PyFalse}, t \in NewTokens1}

Elt2(action, datetime, hash, version) ==
    EmptyEv(TAG_ELT, <<Attr("action", action), Attr("datetime", datetime),
                       Attr("hash", hash), Attr("version", version)>>)

Records2 ==
    {Elt2(<<"install">>, TimestampStr(t), <<"c618755a">>, <<"5">>) : t \in 1..3}
    \cup {Elt2(<<"rollback">>, TimestampStr(t), <<"294fc865">>, <<"1">>) : t \in 1..3}

Items2 == SeqsUpTo(Records2 \cup {ForeignEmpty}, MaxElts)

Streams2 == Items2 \cup {Document(<<Attr("schema", <<"2">>)>>, items) : items \in Items2}

NewElems2 ==
    {ReturnElt_Two(Two_Elt_new(<<"install">>, TimestampStr(t), <<"124a8355">>, <<"6">>)) :
        t \in 2..3}

-----------------------------------------------------------------------------
(* The schema-1 resolver on its own *)

\* no call is in progress: each call owns its stream for its duration
NoCall == [op |-> "none"]

InitOne ==
    /\ registry = <<>>
    /\ default_schema = None
    /\ reader \in Streams1
    /\ writer = <<>>
    /\ last = NoCall

CallOneCurrentAt ==
    /\ last = NoCall
    /\ \E datetime \in DateTimes :
          last' = [op |-> "One::current_at", datetime |-> datetime,
                   result |-> One_current_at(reader, datetime)]
    /\ UNCHANGED <<registry, default_schema, reader, writer>>

CallOneUpdate ==
    /\ last = NoCall
    /\ \E action \in Actions, elem \in NewElems1, sink \in BOOLEAN :
          LET w == One_update(action, reader, elem, sink)
          IN /\ writer' = w.out
             /\ last' = [op |-> "One::update", action |-> action, elem |-> elem,
                         sink |-> sink, result |-> w.result]
    /\ UNCHANGED <<registry, default_schema, reader>>

\* the rewritten stack is what the next call reads
Reopen ==
    /\ last.op \in {"One::update", "Two::update"}
    /\ last.result.ok
    /\ Len(Elts(writer)) <= MaxElts
    /\ reader' = writer
    /\ writer' = <<>>
    /\ last' = NoCall
    /\ UNCHANGED <<registry, default_schema>>

NextOne == CallOneCurrentAt \/ CallOneUpdate \/ Reopen

SpecOne == InitOne /\ [][NextOne]_vars

-----------------------------------------------------------------------------
(* The schema-2 resolver on its own *)

InitTwo ==
    /\ registry = <<>>
    /\ default_schema = None
    /\ reader \in Streams2
    /\ writer = <<>>
    /\ last = NoCall

CallTwoCurrentAt ==
    /\ last = NoCall
    /\ \E datetime \in DateTimes :
          last' = [op |-> "Two::current_at", datetime |-> datetime,
                   result |-> Two_current_at(reader, datetime)]
    /\ UNCHANGED <<registry, default_schema, reader, writer>>

CallTwoUpdate ==
    /\ last = NoCall
    /\ \E action \in Actions, elem \in NewElems2, sink \in BOOLEAN :
          LET w == Two_update(action, reader, elem, sink)
          IN /\ writer' = w.out
             /\ last' = [op |-> "Two::update", action |-> action, elem |-> elem,
                         sink |-> sink, result |-> w.result]
    /\ UNCHANGED <<registry, default_schema, reader>>

NextTwo == CallTwoCurrentAt \/ CallTwoUpdate \/ Reopen

SpecTwo == InitTwo /\ [][NextTwo]_vars

-----------------------------------------------------------------------------
(* What the claims speak of, read off the tags of a stream *)

Min(S) == CHOOSE x \in S : \A y \in S : x <= y

\* the timestamp a schema-2 tag declares
Datetime2(e) == parse_from_str(AttrValue(e.attrs, "datetime")).val

\* a schema-1 version token of the documented form TIMESTAMP[_REVISION]
WellFormedToken1(v) ==
    /\ Len(v) >= 1
    /\ parse_from_str(SubSeq(v, 1, 1)).ok
    /\ Len(v) > 1 => (Len(v) >= 3 /\ v[2] = "_" /\ \A i \in 3..Len(v) : v[i] # "_")

\* the timestamp a well-formed schema-1 tag embeds in its version
Timestamp1(e) == parse_from_str(SubSeq(AttrValue(e.attrs, "version"), 1, 1)).val

FlaggedCurrent(e) == AttrValue(e.attrs, "is_current") = <<"True">>

\* every child element is a record of the documented schema-1 form
WellFormedStream1(events) ==
    \A i \in DOMAIN events :
        events[i].type = "Empty" =>
            /\ events[i].name = TAG_ELT
            /\ WellFormedToken1(AttrValue(events[i].attrs, "version"))

-----------------------------------------------------------------------------
(* Claims on the schema-2 resolver, checked under SpecTwo *)

\* C1: Two::current_at returns the first record in declared order whose
\* datetime is not after the target, with the attributes that record declares,
\* and fails with NoCurrentFound when no record has such a datetime.
C1_TwoCurrentAtFirstNotLater ==
    last.op = "Two::current_at" =>
        LET elts == Elts(reader)
            fits == {i \in DOMAIN elts : Datetime2(elts[i]) <= last.datetime}
        IN IF fits = {}
           THEN last.result = Err(NoCurrentFound)
           ELSE /\ last.result.ok
                /\ last.result.val.schema = "2"
                /\ \A k \in {"action", "datetime", "hash", "version"} :
                       last.result.val.elt[k] = AttrValue(elts[Min(fits)].attrs, k)

\* a newest-first stream whose first record is after the target and whose
\* second is not: the second is returned
C1_Witness ==
    /\ last.op = "Two::current_at"
    /\ last.result.ok
    /\ Len(Elts(reader)) >= 2
    /\ \A i \in 1..(Len(Elts(reader)) - 1) :
           Datetime2(Elts(reader)[i]) >= Datetime2(Elts(reader)[i + 1])
    /\ Datetime2(Elts(reader)[1]) > last.datetime
    /\ last.result.val.elt.datetime = AttrValue(Elts(reader)[2].attrs, "datetime")

\* C3: after Two::update with the install action the output holds the new
\* record first, then every existing record, unchanged and in order.
C3_TwoInstallInsertsAtFront ==
    (last.op = "Two::update" /\ last.action = "install" /\ last.sink
        /\ last.result.ok) =>
        Elts(writer) = <<Two_bselem(last.elem.elt)>> \o Elts(reader)

\* the records of a schema-2 stream are in newest-first order
NewestFirst2(events) ==
    \A i \in 1..(Len(Elts(events)) - 1) :
        Datetime2(Elts(events)[i]) >= Datetime2(Elts(events)[i + 1])

\* C11: on a stream whose records are newest first, Two::current_at returns a
\* record whenever some record is not after the target, and no record of the
\* stream that is not after the target has a later datetime than the record
\* returned.
C11_TwoCurrentAtClosestNotLater ==
    (last.op = "Two::current_at" /\ NewestFirst2(reader)) =>
        LET elts == Elts(reader)
            fits == {i \in DOMAIN elts : Datetime2(elts[i]) <= last.datetime}
        IN fits # {} =>
              /\ last.result.ok
              /\ parse_from_str(last.result.val.elt.datetime).ok
              /\ parse_from_str(last.result.val.elt.datetime).val <= last.datetime
              /\ \A i \in fits :
                     Datetime2(elts[i]) <= parse_from_str(last.result.val.elt.datetime).val

\* three records with three datetimes, newest first; the target is the middle
\* one, and the middle record is returned
C11_Witness ==
    /\ last.op = "Two::current_at"
    /\ NewestFirst2(reader)
    /\ Len(Elts(reader)) = 3
    /\ Datetime2(Elts(reader)[1]) > last.datetime
    /\ Datetime2(Elts(reader)[2]) = last.datetime
    /\ Datetime2(Elts(reader)[3]) < last.datetime
    /\ last.result.ok
    /\ last.result.val.elt.datetime = AttrValue(Elts(reader)[2].attrs, "datetime")

-----------------------------------------------------------------------------
(* Claims on the schema-1 resolver, checked under SpecOne *)

\* C2: a record One::current_at returns has a version timestamp that is not
\* after the target.
C2_OneCurrentAtNeverLater ==
    (last.op = "One::current_at" /\ last.result.ok) =>
        /\ parse_from_str(last.result.val.elt.version).ok
        /\ parse_from_str(last.result.val.elt.version).val <= last.datetime

\* a record is returned from a stream that also holds a record after the target
C2_Witness ==
    /\ last.op = "One::current_at"
    /\ last.result.ok
    /\ WellFormedStream1(reader)
    /\ \E i \in DOMAIN Elts(reader) : Timestamp1(Elts(reader)[i]) > last.datetime

\* C4: after One::update with the install action no existing record is
\* flagged current, the last tag of the output is a new record flagged
\* current, and so exactly one record of the output is flagged current.
C4_OneInstallOneCurrent ==
    (last.op = "One::update" /\ last.action = "install" /\ last.sink
        /\ last.result.ok) =>
        LET old == Elts(reader)
            new == Elts(writer)
        IN /\ Len(new) = Len(old) + 1
           /\ \A i \in DOMAIN old : ~FlaggedCurrent(new[i])
           /\ writer[Len(writer)] = new[Len(new)]
           /\ FlaggedCurrent(new[Len(new)])
           /\ Cardinality({i \in DOMAIN new : FlaggedCurrent(new[i])}) = 1

\* C10: with a target at or after every record's timestamp and a record
\* flagged current, One::current_at on a well-formed stream returns the first
\* record flagged current, and its version() is that record's whole token.
C10_OneCurrentAtNowFirstCurrent ==
    (/\ last.op = "One::current_at"
     /\ WellFormedStream1(reader)
     /\ \A i \in DOMAIN Elts(reader) : Timestamp1(Elts(reader)[i]) <= last.datetime
     /\ \E i \in DOMAIN Elts(reader) : FlaggedCurrent(Elts(reader)[i])) =>
        LET elts == Elts(reader)
            first == Min({i \in DOMAIN elts : FlaggedCurrent(elts[i])})
        IN /\ last.result.ok
           /\ last.result.val.schema = "1"
           /\ as_bool(last.result.val.elt.is_current)
           /\ ReturnElt_version(last.result.val) = AttrValue(elts[first].attrs, "version")

\* the scenario of the parser's test: the current record carries a revision and
\* stands between records with later timestamps
C10_Witness ==
    /\ last.op = "One::current_at"
    /\ last.datetime = Len(Timestamps)
    /\ WellFormedStream1(reader)
    /\ Len(Elts(reader)) = 3
    /\ ~FlaggedCurrent(Elts(reader)[1]) /\ ~FlaggedCurrent(Elts(reader)[3])
    /\ FlaggedCurrent(Elts(reader)[2])
    /\ Timestamp1(Elts(reader)[1]) > Timestamp1(Elts(reader)[2])
    /\ Timestamp1(Elts(reader)[3]) > Timestamp1(Elts(reader)[2])
    /\ last.result.ok
    /\ ReturnElt_version(last.result.val) = TimestampStr(2) \o <<"_", "r575055">>

\* C15: an update with an action other than install, by either resolver,
\* returns an error value to its caller and writes nothing; it does not abort
\* the program.
C15_NonInstallReturnsError ==
    (last.op \in {"One::update", "Two::update"} /\ last.action # "install") =>
        /\ IsErr(last.result)
        /\ writer = <<>>

\* the events of a stream before its first child element that is no
\* well-formed schema-1 record
WellFormedPrefix1(events) ==
    LET bad == {i \in DOMAIN events :
                   \/ events[i].type = "Error"
                   \/ /\ events[i].type = "Empty"
                      /\ ~(/\ events[i].name = TAG_ELT
                           /\ AttrKeys(events[i].attrs) = {"is_current", "version"}
                           /\ AttrValue(events[i].attrs, "is_current")
                                  \in {<<"True">>, <<"False">>}
                           /\ WellFormedToken1(AttrValue(events[i].attrs, "version")))}
    IN IF bad = {} THEN events ELSE SubSeq(events, 1, Min(bad) - 1)

Max(S) == CHOOSE x \in S : \A y \in S : y <= x

\* C19: One::current_at stops at the first record that is after the target,
\* or not after it and flagged current, and returns the last record up to
\* and including that one that is not after the target (NoCurrentFound when
\* there is none); nothing after the record it stops at changes the result.
C19_OneScanRule ==
    last.op = "One::current_at" =>
        LET elts == Elts(WellFormedPrefix1(reader))
            stops == {i \in DOMAIN elts :
                         \/ Timestamp1(elts[i]) > last.datetime
                         \/ FlaggedCurrent(elts[i])}
            in_range == {i \in 1..Min(stops) : Timestamp1(elts[i]) <= last.datetime}
        IN stops # {} =>
              IF in_range = {}
              THEN last.result = Err(NoCurrentFound)
              ELSE /\ last.result.ok
                   /\ ReturnElt_version(last.result.val)
                          = AttrValue(elts[Max(in_range)].attrs, "version")
                   /\ as_bool(last.result.val.elt.is_current)
                          <=> FlaggedCurrent(elts[Max(in_range)])

\* the scan stopped at the second record, in range and flagged current, after
\* a first in range and not flagged; the third, also in range and flagged
\* current with another version, was not read
C19_Witness ==
    /\ last.op = "One::current_at"
    /\ WellFormedPrefix1(reader) = reader
    /\ Len(Elts(reader)) = 3
    /\ \A i \in 1..3 : Timestamp1(Elts(reader)[i]) <= last.datetime
    /\ ~FlaggedCurrent(Elts(reader)[1])
    /\ FlaggedCurrent(Elts(reader)[2])
    /\ FlaggedCurrent(Elts(reader)[3])
    /\ AttrValue(Elts(reader)[3].attrs, "version")
           # AttrValue(Elts(reader)[2].attrs, "version")
    /\ last.result.ok
    /\ ReturnElt_version(last.result.val) = AttrValue(Elts(reader)[2].attrs, "version")

\* C20: when the first records of a stream, one or more, are not after the
\* target and none is flagged current, and the next record is after the
\* target, One::current_at returns the last of those first records, whose
\* flag is False.
C20_OneReturnsNotCurrent ==
    last.op = "One::current_at" =>
        LET elts == Elts(WellFormedPrefix1(reader))
            out == {i \in DOMAIN elts : Timestamp1(elts[i]) > last.datetime}
        IN (/\ out # {}
            /\ Min(out) > 1
            /\ \A i \in 1..(Min(out) - 1) : ~FlaggedCurrent(elts[i])) =>
               /\ last.result.ok
               /\ ReturnElt_version(last.result.val)
                      = AttrValue(elts[Min(out) - 1].attrs, "version")
               /\ last.result.val.elt.is_current = PyFalse

\* two records in range, neither flagged current, then one after the target:
\* the second was returned
C20_Witness ==
    /\ last.op = "One::current_at"
    /\ WellFormedPrefix1(reader) = reader
    /\ Len(Elts(reader)) = 3
    /\ Timestamp1(Elts(reader)[1]) <= last.datetime
    /\ Timestamp1(Elts(reader)[2]) <= last.datetime
    /\ Timestamp1(Elts(reader)[3]) > last.datetime
    /\ ~FlaggedCurrent(Elts(reader)[1])
    /\ ~FlaggedCurrent(Elts(reader)[2])
    /\ AttrValue(Elts(reader)[1].attrs, "version")
           # AttrValue(Elts(reader)[2].attrs, "version")
    /\ last.result.ok
    /\ last.result.val.elt.is_current = PyFalse
    /\ ReturnElt_version(last.result.val) = AttrValue(Elts(reader)[2].attrs, "version")

-----------------------------------------------------------------------------
(* The stack parser with its registry *)

SchemaIds == {<<"1">>, <<"2">>, <<"9">>}

\* the path of the parser's tests, a relative path, and a path with no parent
\* directory
StackPaths ==
    {Path(TRUE, << <<"dd">>, <<"bak">>, <<"packages.xml">>,
                   <<"packages.xml", "_", "swinstall_stack">> >>),
     Path(FALSE, << <<"app.cfg">>, <<"stack">> >>),
     Path(FALSE, << <<"swinstall_stack">> >>)}

ParserItems ==
    SeqsUpTo({Elt1(<<"True">>, TimestampStr(2) \o <<"_", "r575055">>),
              Elt1(<<"False">>, TimestampStr(3))}, MaxElts)
    \cup SeqsUpTo({Elt2(<<"install">>, TimestampStr(3), <<"c618755a">>, <<"5">>),
                   Elt2(<<"install">>, TimestampStr(1), <<"294fc865">>, <<"1">>)}, MaxElts)

RootAttrs ==
    {<<>>, <<Attr("path", <<"packages.xml_swinstall_stack">>)>>,
     <<Attr("path", <<"packages.xml_swinstall_stack">>), Attr("schema", <<"2">>)>>}
    \cup {<<Attr("schema", id)>> : id \in SchemaIds}

\* documents with the root container
RootedDocuments == {Document(a, items) : a \in RootAttrs, items \in ParserItems}

\* streams in which no stack_history start tag is ever read: nothing, records
\* with no container, another container, the root as an empty tag, a stream
\* that breaks before the root
RootlessDocuments ==
    {Indented(items) : items \in ParserItems}
    \cup {<<StartEv("history", <<Attr("schema", <<"2">>)>>)>> \o Indented(items)
             \o <<EndEv("history")>> : items \in ParserItems}
    \cup {<<EmptyEv(ROOT, <<Attr("schema", <<"2">>)>>)>>, <<TextEv, ErrorEv>>}

Init ==
    /\ registry = <<>>
    /\ default_schema = None
    /\ reader \in RootedDocuments \cup RootlessDocuments
    /\ writer = <<>>
    /\ last = NoCall

Register ==
    /\ last = NoCall
    /\ \E value \in SchemaWrappers :
          /\ registry' = Registered(registry, value)
          /\ last' = [op |-> "SwinstallParser::register", value |-> value,
                      was |-> get_component(registry,
                                            SchemaWrapper_schema(value))]
    /\ UNCHANGED <<default_schema, reader, writer>>

SetDefaultSchema ==
    /\ last = NoCall
    /\ \E schema \in SchemaIds :
          LET r == Parser_set_default_schema(registry, default_schema, schema)
          IN /\ default_schema' = r.default_schema
             /\ last' = [op |-> "SwinstallParser::set_default_schema",
                         schema |-> schema, was |-> default_schema,
                         result |-> r.result]
    /\ UNCHANGED <<registry, reader, writer>>

CallParserCurrentAt ==
    /\ last = NoCall
    /\ \E opened \in {Ok(reader), Err(QuckXmlError)},
          swinstall_stack \in StackPaths, datetime \in DateTimes :
          last' = [op |-> "SwinstallParser::current_at", opened |-> opened.ok,
                   swinstall_stack |-> swinstall_stack, datetime |-> datetime,
                   result |-> Parser_current_at(registry, default_schema, opened,
                                                swinstall_stack, datetime)]
    /\ UNCHANGED <<registry, default_schema, reader, writer>>

\* the call has returned; the parser is ready for the next one
Return ==
    /\ last # NoCall
    /\ last' = NoCall
    /\ UNCHANGED <<registry, default_schema, reader, writer>>

Next == Register \/ SetDefaultSchema \/ CallParserCurrentAt \/ Return

Spec == Init /\ [][Next]_vars

-----------------------------------------------------------------------------
(* Claims on the stack parser, checked under Spec *)

\* the stream ends without a read error
ReadsToEof(events) == \A i \in DOMAIN events : events[i].type # "Error"

RootIndexes(events) ==
    {i \in DOMAIN events : events[i].type = "Start" /\ events[i].name = ROOT}

\* the first stack_history start tag of a stream that has one
RootOf(events) == events[Min(RootIndexes(events))]

\* a call of the parser's current_at that opened the stream and found the root
FoundRoot ==
    /\ last.op = "SwinstallParser::current_at"
    /\ last.opened
    /\ RootIndexes(reader) # {}
    /\ ReadsToEof(reader)

\* C7: when the root declares a schema identifier with no registered resolver
\* the call fails with the error of an unknown schema, which the code spells
\* RuntimeError("Unable to get reader for schema: ..").
C7_UnknownSchemaFails ==
    (/\ FoundRoot
     /\ HasAttr(RootOf(reader).attrs, "schema")
     /\ AttrValue(RootOf(reader).attrs, "schema") \notin DOMAIN registry) =>
        last.result = Err(RuntimeErrorNoReader)

\* C8: when the end of the stream is reached and no stack_history start tag
\* was read, the call fails with NoCurrentFound.
C8_NoRootNoCurrentFound ==
    (/\ last.op = "SwinstallParser::current_at"
     /\ last.opened
     /\ ReadsToEof(reader)
     /\ RootIndexes(reader) = {}) =>
        last.result = Err(NoCurrentFound)

\* a stream with records and another container, but no root, was read with
\* both resolvers registered and a default schema set
C8_Witness ==
    /\ last.op = "SwinstallParser::current_at"
    /\ last.opened
    /\ RootIndexes(reader) = {}
    /\ Elts(reader) # <<>>
    /\ \E i \in DOMAIN reader : reader[i].type = "Start"
    /\ DOMAIN registry = {<<"1">>, <<"2">>}
    /\ default_schema # None
    /\ last.result = Err(NoCurrentFound)

\* C9: the schema the root declares is used, and the default only when the
\* root declares none; the call fails with NoDefaultSchema exactly when the
\* root declares no schema and no default is set.
C9_DeclaredSchemaBeforeDefault ==
    FoundRoot =>
        LET root == RootOf(reader)
            rest == SubSeq(reader, Min(RootIndexes(reader)) + 1, Len(reader))
            chosen == IF HasAttr(root.attrs, "schema")
                      THEN Some(AttrValue(root.attrs, "schema"))
                      ELSE default_schema
            found == Parser_current_version(registry, rest, chosen[1], last.datetime)
        IN IF chosen = None THEN last.result = Err(NoDefaultSchema)
           ELSE /\ last.result # Err(NoDefaultSchema)
                /\ ~found.ok => last.result = found
                /\ found.ok => last.result =
                       versioned_from_swinstall_stack(last.swinstall_stack,
                                                      ReturnElt_version(found.val))

\* C12: set_default_schema returns false exactly when no resolver is
\* registered under the identifier, and then the default is what it was; it
\* returns true otherwise, and then the identifier is the default, which a
\* later current_at uses for a root that declares no schema.
C12_SetDefaultSchema ==
    /\ last.op = "SwinstallParser::set_default_schema" =>
           /\ last.result = FALSE <=> last.schema \notin DOMAIN registry
           /\ last.result = FALSE => default_schema = last.was
           /\ last.result = TRUE => default_schema = Some(last.schema)
    /\ (FoundRoot /\ default_schema # None /\ ~HasAttr(RootOf(reader).attrs, "schema")) =>
           LET rest == SubSeq(reader, Min(RootIndexes(reader)) + 1, Len(reader))
               found == Parser_current_version(registry, rest, default_schema[1],
                                               last.datetime)
           IN /\ default_schema[1] \in DOMAIN registry
              /\ ~found.ok => last.result = found
              /\ found.ok => last.result =
                     versioned_from_swinstall_stack(last.swinstall_stack,
                                                    ReturnElt_version(found.val))

\* a call with an identifier that is not registered, made when a default was
\* already set
C12_Witness ==
    /\ last.op = "SwinstallParser::set_default_schema"
    /\ last.schema \notin DOMAIN registry
    /\ last.was # None
    /\ last.result = FALSE
    /\ default_schema = last.was

\* C13: the registry starts empty; a register call makes get_component of
\* the resolver's own schema() return that resolver, adds no other key and
\* leaves every other entry as it was; no other step changes the registry.
\* So get_component returns the resolver registered last under an identifier
\* and nothing for an identifier never registered.
C13_RegisterLastWins ==
    [][IF last'.op = "SwinstallParser::register"
       THEN LET id == SchemaWrapper_schema(last'.value)
            IN /\ get_component(registry', id) = Some(last'.value)
               /\ DOMAIN registry' = DOMAIN registry \cup {id}
               /\ \A k \in SchemaIds \ {id} :
                      get_component(registry', k) = get_component(registry, k)
       ELSE registry' = registry]_vars

\* a second resolver was registered under an identifier that had one, with
\* the other identifier registered too: the second replaced the first
C13_Witness ==
    /\ last.op = "SwinstallParser::register"
    /\ last.was # None
    /\ last.was # Some(last.value)
    /\ get_component(registry, SchemaWrapper_schema(last.value)) = Some(last.value)
    /\ Cardinality(DOMAIN registry) = 2
    /\ get_component(registry, <<"9">>) = None

\* the version token of the record a successful call resolved: the resolver
\* of the schema the call chose, run on the records after the root
ResolvedVersion ==
    LET root == RootOf(reader)
        rest == SubSeq(reader, Min(RootIndexes(reader)) + 1, Len(reader))
        schema == Parser_schema(default_schema, root).val
    IN ReturnElt_version(
           Parser_current_version(registry, rest, schema, last.datetime).val)

\* C14: a successful current_at for the stack path <dir>/<base>/<file> and
\* the resolved version token v returns <dir>/<base>/<base>_v: the caller's
\* path with its last component replaced by the parent directory's name, "_"
\* and v.
C14_VersionedPath ==
    (FoundRoot /\ last.result.ok) =>
        LET p == last.swinstall_stack
            n == Len(p.parts)
        IN /\ n >= 2
           /\ last.result.val.root = p.root
           /\ last.result.val.parts =
                  SubSeq(p.parts, 1, n - 1)
                      \o << p.parts[n - 1] \o <<"_">> \o ResolvedVersion >>

\* the parser's schema-2 test: the stack of packages.xml, the record of
\* version 5 resolved
C14_Witness ==
    /\ FoundRoot
    /\ HasAttr(RootOf(reader).attrs, "schema")
    /\ AttrValue(RootOf(reader).attrs, "schema") = <<"2">>
    /\ last.result =
           Ok(Path(TRUE, << <<"dd">>, <<"bak">>, <<"packages.xml">>,
                            <<"packages.xml", "_", "5">> >>))

-----------------------------------------------------------------------------
(* The record codecs on their own *)

CodecTokens == SeqsUpTo({Timestamps[1], "_", "r575055"}, MaxTokenLen)

\* the tags the codecs are given: schema-1 tags with every token and spelling
\* of the flag, schema-2 tags, tags that lack an attribute, tags with an
\* attribute no schema knows, a flag that spells no boolean
CodecTags ==
    {Elt1(f, t) : f \in {<<"True">>, <<"False">>, <<"true">>}, t \in CodecTokens}
    \cup {Elt2(<<"install">>, TimestampStr(t), <<"c618755a">>, <<"5">>) : t \in 1..3}
    \cup {Elt2(<<"rollback">>, <<"yesterday">>, <<"294fc865">>, <<"1">>),
          EmptyEv(TAG_ELT, <<>>),
          EmptyEv(TAG_ELT, <<Attr("is_current", <<"True">>)>>),
          EmptyEv(TAG_ELT, <<Attr("version", TimestampStr(1))>>),
          EmptyEv(TAG_ELT, <<Attr("action", <<"install">>),
                             Attr("datetime", TimestampStr(1)),
                             Attr("version", <<"5">>)>>),
          EmptyEv(TAG_ELT, <<Attr("note", <<"x">>),
                             Attr("is_current", <<"False">>),
                             Attr("version", TimestampStr(1))>>),
          EmptyEv(TAG_ELT, <<Attr("note", <<"x">>),
                             Attr("is_current", <<"False">>)>>),
          EmptyEv(TAG_ELT, <<Attr("action", <<"install">>),
                             Attr("datetime", TimestampStr(1)),
                             Attr("note", <<"x">>),
                             Attr("hash", <<"c618755a">>),
                             Attr("version", <<"5">>)>>),
          EmptyEv(TAG_ELT, <<Attr("note", <<"x">>),
                             Attr("datetime", TimestampStr(1)),
                             Attr("hash", <<"c618755a">>),
                             Attr("version", <<"5">>)>>),
          Elt1(<<"maybe">>, TimestampStr(1)),
          EmptyEv(TAG_ELT, <<Attr("is_current", <<"maybe">>)>>)}

\* a tag on its own, between two schema-1 records (the first in range and not
\* flagged current), and between two schema-2 records (the first the newest);
\* streams whose read breaks, at once or after text and a record
CodecStreams ==
    {<<tag>> : tag \in CodecTags}
    \cup {<<ErrorEv>>,
          <<TextEv, Elt1(<<"False">>, TimestampStr(1)), TextEv, ErrorEv>>,
          <<TextEv, Elt2(<<"install">>, TimestampStr(3), <<"c618755a">>, <<"5">>),
            TextEv, ErrorEv>>}
    \cup {<<Elt1(<<"False">>, TimestampStr(1)), tag,
            Elt1(<<"True">>, TimestampStr(1))>> : tag \in CodecTags}
    \cup {<<Elt2(<<"install">>, TimestampStr(3), <<"c618755a">>, <<"5">>), tag,
            Elt2(<<"install">>, TimestampStr(1), <<"294fc865">>, <<"1">>)>> :
              tag \in CodecTags}

InitCodec ==
    /\ registry = <<>>
    /\ default_schema = None
    /\ reader \in CodecStreams
    /\ writer = <<>>
    /\ last = NoCall

CallOneEltNew ==
    /\ last = NoCall
    /\ \E is_current \in {PyTrue, PyFalse}, version \in CodecTokens :
          last' = [op |-> "one::Elt::new", is_current |-> is_current,
                   version |-> version, result |-> One_Elt_new(is_current, version)]
    /\ UNCHANGED <<registry, default_schema, reader, writer>>

CallOneFromAttrs ==
    /\ last = NoCall
    /\ last' = [op |-> "one::Elt::from_attrs", attrs |-> reader[1].attrs,
                result |-> One_Elt_from_attrs(reader[1].attrs)]
    /\ UNCHANGED <<registry, default_schema, reader, writer>>

\* the decoded record is written back as the update path writes a record
CallOneNewElem ==
    /\ last.op = "one::Elt::from_attrs"
    /\ last.result.ok
    /\ writer' = <<One_new_elem(ReturnElt_One(last.result.val))>>
    /\ last' = [op |-> "One::new_elem", elem |-> ReturnElt_One(last.result.val)]
    /\ UNCHANGED <<registry, default_schema, reader>>

CallTwoFromAttrs ==
    /\ last = NoCall
    /\ last' = [op |-> "two::Elt::from_attrs", attrs |-> reader[1].attrs,
                result |-> Two_Elt_from_attrs(reader[1].attrs)]
    /\ UNCHANGED <<registry, default_schema, reader, writer>>

CallTwoBselem ==
    /\ last.op = "two::Elt::from_attrs"
    /\ last.result.ok
    /\ writer' = <<Two_bselem(last.result.val)>>
    /\ last' = [op |-> "Two::update bselem", elem |-> ReturnElt_Two(last.result.val)]
    /\ UNCHANGED <<registry, default_schema, reader>>

\* the codecs, and the operations of the resolvers that decode records
NextCodec ==
    \/ CallOneEltNew
    \/ CallOneFromAttrs
    \/ CallOneNewElem
    \/ CallTwoFromAttrs
    \/ CallTwoBselem
    \/ CallOneCurrentAt
    \/ CallOneUpdate
    \/ CallTwoCurrentAt
    \/ CallTwoUpdate

SpecCodec == InitCodec /\ [][NextCodec]_vars

-----------------------------------------------------------------------------
(* Claims on the record codecs, checked under SpecCodec *)

SameAttributes(a, b) ==
    /\ AttrKeys(a) = AttrKeys(b)
    /\ \A k \in AttrKeys(a) : AttrValue(a, k) = AttrValue(b, k)

\* a tag of the documented schema-1 form
ValidTag1(e) ==
    /\ AttrKeys(e.attrs) = {"is_current", "version"}
    /\ AttrValue(e.attrs, "is_current") \in {<<"True">>, <<"False">>}
    /\ WellFormedToken1(AttrValue(e.attrs, "version"))

\* a tag of the documented schema-2 form
ValidTag2(e) ==
    /\ AttrKeys(e.attrs) = {"action", "datetime", "hash", "version"}
    /\ parse_from_str(AttrValue(e.attrs, "datetime")).ok

\* C5: a valid record that is decoded and written back as the update path
\* writes it has the same attributes with the same values as before.
C5_CodecRoundTrip ==
    /\ (last.op = "One::new_elem" /\ ValidTag1(reader[1])) =>
           SameAttributes(reader[1].attrs, writer[1].attrs)
    /\ (last.op = "Two::update bselem" /\ ValidTag2(reader[1])) =>
           SameAttributes(reader[1].attrs, writer[1].attrs)

Separators(v) == Cardinality({i \in DOMAIN v : v[i] = "_"})

\* C6: for a token v with at most one separator, version() of the record
\* Elt::new builds from v is v.
C6_VersionSplitJoin ==
    (last.op = "one::Elt::new" /\ Separators(last.version) <= 1) =>
        One_Elt_version(last.result) = last.version

\* a token with a timestamp, one separator and a revision was split
C6_Witness ==
    /\ last.op = "one::Elt::new"
    /\ last.version = TimestampStr(1) \o <<"_", "r575055">>
    /\ last.result.version = TimestampStr(1)
    /\ last.result.revision = Some(<<"r575055">>)

-----------------------------------------------------------------------------
(* Claims on decoding, checked under SpecCodec *)

Required1 == {"is_current", "version"}
Required2 == {"action", "datetime", "hash", "version"}

Lacks(attrs, required) == \E k \in required : ~HasAttr(attrs, k)

FalseSpellings == {<<"False">>, <<"false">>, <<"FALSE">>}
BooleanSpellings == FalseSpellings \cup {<<"True">>, <<"true">>, <<"TRUE">>}

\* the is_current attribute, when the tag has one, spells a boolean
FlagSpelled(attrs) ==
    HasAttr(attrs, "is_current") => AttrValue(attrs, "is_current") \in BooleanSpellings

IsElt(e) == e.type = "Empty" /\ e.name = TAG_ELT

\* the elt tags of a stream that lack an attribute their schema requires
Lacking(events, required) ==
    {i \in DOMAIN events : IsElt(events[i]) /\ Lacks(events[i].attrs, required)}

\* One::current_at reads the tag at k: nothing before it breaks the read, and
\* every child element before it is a well-formed record that is in range and
\* not flagged current
OneScanReaches(events, k, datetime) ==
    \A j \in 1..(k - 1) :
        /\ events[j].type # "Error"
        /\ events[j].type = "Empty" =>
               /\ IsElt(events[j])
               /\ ~Lacks(events[j].attrs, Required1)
               /\ AttrValue(events[j].attrs, "is_current") \in FalseSpellings
               /\ WellFormedToken1(AttrValue(events[j].attrs, "version"))
               /\ Timestamp1(events[j]) <= datetime

\* Two::current_at reads the tag at k: nothing before it breaks the read, and
\* every record before it is complete and after the target
TwoScanReaches(events, k, datetime) ==
    \A j \in 1..(k - 1) :
        /\ events[j].type # "Error"
        /\ IsElt(events[j]) =>
               /\ ~Lacks(events[j].attrs, Required2)
               /\ parse_from_str(AttrValue(events[j].attrs, "datetime")).ok
               /\ Datetime2(events[j]) > datetime

MalformedToken1(v) ==
    /\ Separators(v) <= 1
    /\ ~parse_from_str(Split(v, "_")[1]).ok

\* the complete records of a stream whose timestamp does not match the pattern
Malformed1(events) ==
    {i \in DOMAIN events :
        /\ IsElt(events[i])
        /\ ~Lacks(events[i].attrs, Required1)
        /\ FlagSpelled(events[i].attrs)
        /\ MalformedToken1(AttrValue(events[i].attrs, "version"))}

Malformed2(events) ==
    {i \in DOMAIN events :
        /\ IsElt(events[i])
        /\ ~Lacks(events[i].attrs, Required2)
        /\ ~parse_from_str(AttrValue(events[i].attrs, "datetime")).ok}

\* an update reads the tag at k: nothing before it breaks the read or fails to
\* decode
UpdateReaches(events, k, required) ==
    \A j \in 1..(k - 1) :
        /\ events[j].type # "Error"
        /\ IsElt(events[j]) =>
               ~Lacks(events[j].attrs, required) /\ FlagSpelled(events[j].attrs)

\* C17 for the two current_at: reading a record whose timestamp does not
\* match the pattern fails with ChronoParseError.
CurrentAtMalformedTimestamp ==
    /\ (last.op = "One::current_at" /\ Malformed1(reader) # {}) =>
           LET k == Min(Malformed1(reader))
           IN OneScanReaches(reader, k, last.datetime)
                  => last.result = Err(ChronoParseError)
    /\ (last.op = "Two::current_at" /\ Malformed2(reader) # {}) =>
           LET k == Min(Malformed2(reader))
           IN TwoScanReaches(reader, k, last.datetime)
                  => last.result = Err(ChronoParseError)

\* C17: every operation that decodes records, the current_at and the update
\* of either schema, fails with ChronoParseError when it reads a record whose
\* timestamp does not match the pattern.
C17_MalformedTimestamp ==
    /\ CurrentAtMalformedTimestamp
    /\ (last.op = "One::update" /\ last.action = "install"
            /\ Malformed1(reader) # {}) =>
           (UpdateReaches(reader, Min(Malformed1(reader)), Required1)
               => last.result = Err(ChronoParseError))
    /\ (last.op = "Two::update" /\ last.action = "install"
            /\ Malformed2(reader) # {}) =>
           (UpdateReaches(reader, Min(Malformed2(reader)), Required2)
               => last.result = Err(ChronoParseError))

-----------------------------------------------------------------------------
(* Claims on the stack parser that speak of its records, checked under Spec *)

\* C18: a call that reads a schema-2 document whose root has no path
\* attribute fails with NoPathInXml and returns no path.  Stated for calls
\* nothing else makes fail: the schema-2 resolver is registered, a default is
\* set, a record is not after the target, the stack path has a parent.
C18_NoPathFails ==
    (/\ FoundRoot
     /\ default_schema # None
     /\ Parser_schema(default_schema, RootOf(reader)) = Ok(<<"2">>)
     /\ <<"2">> \in DOMAIN registry
     /\ ~HasAttr(RootOf(reader).attrs, "path")
     /\ Lacking(reader, Required2) = {}
     /\ \E i \in DOMAIN Elts(reader) : Datetime2(Elts(reader)[i]) <= last.datetime
     /\ Len(last.swinstall_stack.parts) >= 2) =>
        last.result = Err(NoPathInXml)

-----------------------------------------------------------------------------
(* Claims on the schema-1 update, checked under SpecOne *)

\* a call of One::update with the install action whose writes went through
\* and that returned Ok
OneInstalled ==
    /\ last.op = "One::update"
    /\ last.action = "install"
    /\ last.sink
    /\ last.result.ok

\* C21: after One::update with the install action every event read stands in
\* the output at its position; a record keeps its attributes and its version
\* token, revision included, and only the is_current of a record that was
\* flagged current differs, written False.
C21_OneInstallKeepsRecords ==
    OneInstalled =>
        /\ Len(writer) >= Len(reader)
        /\ \A i \in DOMAIN reader :
               IF IsElt(reader[i]) /\ FlaggedCurrent(reader[i])
               THEN /\ IsElt(writer[i])
                    /\ AttrKeys(writer[i].attrs) = AttrKeys(reader[i].attrs)
                    /\ AttrValue(writer[i].attrs, "version")
                           = AttrValue(reader[i].attrs, "version")
                    /\ AttrValue(writer[i].attrs, "is_current") = <<"False">>
               ELSE writer[i] = reader[i]

-----------------------------------------------------------------------------
(* Claims on the schema-2 update, checked under SpecTwo *)

\* a call of Two::update with the install action whose writes went through
\* and that returned Ok
TwoInstalled ==
    /\ last.op = "Two::update"
    /\ last.action = "install"
    /\ last.sink
    /\ last.result.ok

\* the datetime of the record an update was given
NewDatetime2 == parse_from_str(last.elem.elt.datetime).val

\* C22 as stated: Two::update with the install action on a stream whose
\* records are newest first writes a stream whose records are newest first,
\* whatever the datetime of the new record.
C22_TwoInstallKeepsOrder ==
    (TwoInstalled /\ NewestFirst2(reader)) => NewestFirst2(writer)

\* C22 amended: the same, for a new record that is not older than the first
\* record of the stream.  Every stream a sequence of such installs reads is
\* the one the install before it wrote.
C22_TwoInstallKeepsOrderOfNewest ==
    (/\ TwoInstalled
     /\ NewestFirst2(reader)
     /\ Elts(reader) # <<>> => NewDatetime2 >= Datetime2(Elts(reader)[1])) =>
        NewestFirst2(writer)

\* the second of two installs: the stream read holds a record installed
\* before and an older one, and the new record is newer than both
C22_Witness ==
    /\ TwoInstalled
    /\ NewestFirst2(reader)
    /\ Len(Elts(reader)) >= 2
    /\ AttrValue(Elts(reader)[1].attrs, "hash") = <<"124a8355">>
    /\ Datetime2(Elts(reader)[1]) > Datetime2(Elts(reader)[2])
    /\ NewDatetime2 > Datetime2(Elts(reader)[1])
    /\ Len(Elts(writer)) = Len(Elts(reader)) + 1
    /\ NewestFirst2(writer)

-----------------------------------------------------------------------------
(* Claims on Elt::new, checked under SpecCodec *)

\* C23 as stated: Elt::new on a token with no separator stores the
\* placeholder 10000101-010101 as the record's version.
C23_NoSeparatorStoresPlaceholder ==
    (last.op = "one::Elt::new" /\ Separators(last.version) = 0) =>
        last.result.version = PLACEHOLDER_VERSION

\* C23 amended: Elt::new on a token with no separator stores the token as the
\* record's version, with no revision.
C23_NoSeparatorStoresToken ==
    (last.op = "one::Elt::new" /\ Separators(last.version) = 0) =>
        /\ last.result.version = last.version
        /\ last.result.revision = None

\* the token of the unit test, a timestamp alone, was stored as it is
C23_Witness ==
    /\ last.op = "one::Elt::new"
    /\ last.version = TimestampStr(1)
    /\ last.is_current = PyTrue
    /\ last.result.version = TimestampStr(1)
    /\ last.result.revision = None

-----------------------------------------------------------------------------
(* Claims on failing streams, checked under SpecCodec *)

\* the reads of a stream that return an error
ReadErrors(events) == {i \in DOMAIN events : events[i].type = "Error"}

\* SwinstallParser::current_at reads the event at k: no root before it
ParserScanReaches(events, k) ==
    \A j \in 1..(k - 1) : ~(events[j].type = "Start" /\ events[j].name = ROOT)

\* C24: an operation that meets a read error of its stream, or an update whose
\* writes fail, returns an error value: it does not report success and does
\* not abort the program.
C24_StreamFailuresReturned ==
    /\ (last.op = "SwinstallParser::current_at" /\ ~last.opened) => IsErr(last.result)
    /\ (last.op = "SwinstallParser::current_at" /\ last.opened
           /\ ReadErrors(reader) # {}
           /\ ParserScanReaches(reader, Min(ReadErrors(reader)))) =>
           IsErr(last.result)
    /\ (last.op = "One::current_at" /\ ReadErrors(reader) # {}
           /\ OneScanReaches(reader, Min(ReadErrors(reader)), last.datetime)) =>
           IsErr(last.result)
    /\ (last.op = "Two::current_at" /\ ReadErrors(reader) # {}
           /\ TwoScanReaches(reader, Min(ReadErrors(reader)), last.datetime)) =>
           IsErr(last.result)
    /\ (last.op = "One::update" /\ last.action = "install"
           /\ ReadErrors(reader) # {}
           /\ UpdateReaches(reader, Min(ReadErrors(reader)), Required1)) =>
           IsErr(last.result)
    /\ (last.op = "Two::update" /\ last.action = "install"
           /\ ReadErrors(reader) # {}) =>
           IsErr(last.result)
    /\ (last.op = "One::update" /\ last.action = "install" /\ ~last.sink
           /\ ReadErrors(reader) = {}
           /\ UpdateReaches(reader, Len(reader) + 1, Required1)) =>
           IsErr(last.result)
    /\ (last.op = "Two::update" /\ last.action = "install" /\ ~last.sink
           /\ ReadErrors(reader) = {}
           /\ reader # <<>>) =>
           IsErr(last.result)

\* the part of C24 on the operations that resolve
ResolveStreamFailuresReturned ==
    /\ (last.op = "SwinstallParser::current_at" /\ ~last.opened) => IsErr(last.result)
    /\ (last.op = "SwinstallParser::current_at" /\ last.opened
           /\ ReadErrors(reader) # {}
           /\ ParserScanReaches(reader, Min(ReadErrors(reader)))) =>
           IsErr(last.result)
    /\ (last.op = "One::current_at" /\ ReadErrors(reader) # {}
           /\ OneScanReaches(reader, Min(ReadErrors(reader)), last.datetime)) =>
           IsErr(last.result)
    /\ (last.op = "Two::current_at" /\ ReadErrors(reader) # {}
           /\ TwoScanReaches(reader, Min(ReadErrors(reader)), last.datetime)) =>
           IsErr(last.result)

\* the part of C24 on a read error met by an update
UpdateReadErrorReturned ==
    (last.op \in {"One::update", "Two::update"} /\ last.action = "install"
        /\ last.sink /\ ReadErrors(reader) # {}
        /\ UpdateReaches(reader, Min(ReadErrors(reader)), Required1)) =>
        IsErr(last.result)

\* the part of C24 on the failed writes of an update
UpdateWriteFailureReturned ==
    (last.op \in {"One::update", "Two::update"} /\ last.action = "install"
        /\ ~last.sink /\ ReadErrors(reader) = {}
        /\ UpdateReaches(reader, Len(reader) + 1, Required1)
        /\ reader # <<>>) =>
        IsErr(last.result)

-----------------------------------------------------------------------------
(* Claims on the end of the schema-1 scan, checked under SpecOne *)

\* every record of a well-formed stream is not after the target and none is
\* flagged current: the scan of One::current_at meets no stop condition
NoStop1(events, datetime) ==
    /\ WellFormedPrefix1(events) = events
    /\ \A i \in DOMAIN Elts(events) :
           /\ Timestamp1(Elts(events)[i]) <= datetime
           /\ ~FlaggedCurrent(Elts(events)[i])

\* C25: when every record is not after the target and none is flagged
\* current, One::current_at fails with NoCurrentFound at the end of the
\* stream; it does not return the last record it remembered.
C25_OneEofNoCurrentFound ==
    (last.op = "One::current_at" /\ NoStop1(reader, last.datetime)) =>
        last.result = Err(NoCurrentFound)

\* two records in range, neither flagged current, and the call failed
C25_Witness ==
    /\ last.op = "One::current_at"
    /\ NoStop1(reader, last.datetime)
    /\ Len(Elts(reader)) >= 2
    /\ last.result = Err(NoCurrentFound)


\* C26: when the first record of the stream is after the target,
\* One::current_at fails with NoCurrentFound at that record, whatever follows
\* it, a later record not after the target and flagged current included.
C26_OneFirstOutOfRange ==
    last.op = "One::current_at" =>
        LET elts == Elts(WellFormedPrefix1(reader))
            first == Min({i \in DOMAIN reader : reader[i].type = "Empty"})
        IN (elts # <<>> /\ Timestamp1(elts[1]) > last.datetime) =>
              /\ last.result = Err(NoCurrentFound)
              /\ One_scan(reader, 1, last.datetime, FALSE, FALSE, None).pos = first

\* the first record is after the target, the second is not and is flagged
\* current, and the call failed
C26_Witness ==
    /\ last.op = "One::current_at"
    /\ WellFormedPrefix1(reader) = reader
    /\ Len(Elts(reader)) >= 2
    /\ Timestamp1(Elts(reader)[1]) > last.datetime
    /\ Timestamp1(Elts(reader)[2]) <= last.datetime
    /\ FlaggedCurrent(Elts(reader)[2])
    /\ last.result = Err(NoCurrentFound)

-----------------------------------------------------------------------------
(* Claims on an install followed by a resolve *)

\* C27: after Two::update installed a record r with datetime T, on any
\* stream, one with no records included, Two::current_at on the output with a
\* target at or after T returns a record, and returns r when T is at or after
\* the datetime of every record of the stream.  Checked under SpecTwo.
C27_TwoInstallThenResolve ==
    TwoInstalled =>
        \A target \in DateTimes :
            target >= NewDatetime2 =>
                LET found == Two_current_at(writer, target)
                IN /\ found.ok
                   /\ (\A i \in DOMAIN Elts(reader) :
                           NewDatetime2 >= Datetime2(Elts(reader)[i]))
                          => found.val = last.elem

\* C27 on the streams that hold a record
TwoInstallThenResolveAmongRecords ==
    (TwoInstalled /\ Elts(reader) # <<>>) =>
        \A target \in DateTimes :
            target >= NewDatetime2 =>
                LET found == Two_current_at(writer, target)
                IN /\ found.ok
                   /\ (\A i \in DOMAIN Elts(reader) :
                           NewDatetime2 >= Datetime2(Elts(reader)[i]))
                          => found.val = last.elem


\* a target at or after the timestamp of every record of a stream
AtOrAfterAll1(events, target) ==
    \A i \in DOMAIN Elts(events) : Timestamp1(Elts(events)[i]) <= target

\* C28: after One::update installed a record with version token v on a
\* well-formed stream, One::current_at on the output with a target at or after
\* every record's timestamp returns a record whose version() is v, revision
\* included; so it is after every install of a sequence.  Checked under SpecOne.
C28_OneInstallThenResolve ==
    (OneInstalled /\ WellFormedPrefix1(reader) = reader) =>
        \A target \in DateTimes :
            AtOrAfterAll1(writer, target) =>
                LET found == One_current_at(writer, target)
                IN /\ found.ok
                   /\ ReturnElt_version(found.val) = One_Elt_version(last.elem.elt)

\* C28 for a record passed flagged current whose token has no revision
OneInstallThenResolveNoRevision ==
    (/\ OneInstalled
     /\ WellFormedPrefix1(reader) = reader
     /\ as_bool(last.elem.elt.is_current)
     /\ last.elem.elt.revision = None) =>
        \A target \in DateTimes :
            AtOrAfterAll1(writer, target) =>
                LET found == One_current_at(writer, target)
                IN /\ found.ok
                   /\ ReturnElt_version(found.val) = One_Elt_version(last.elem.elt)

\* C28 for a record passed flagged current: the timestamp of the token
OneInstallThenResolveTimestamp ==
    (/\ OneInstalled
     /\ WellFormedPrefix1(reader) = reader
     /\ as_bool(last.elem.elt.is_current)) =>
        \A target \in DateTimes :
            AtOrAfterAll1(writer, target) =>
                LET found == One_current_at(writer, target)
                IN /\ found.ok
                   /\ ReturnElt_version(found.val) = last.elem.elt.version

-----------------------------------------------------------------------------
(* Claims on the document One::update writes, checked under SpecOne *)

RootStarts(events) ==
    {i \in DOMAIN events : events[i].type = "Start" /\ events[i].name = ROOT}

RootEnds(events) ==
    {i \in DOMAIN events : events[i].type = "End" /\ events[i].name = ROOT}

\* C29: when the stream read holds the stack_history container, the output
\* of One::update with the install action holds the new record before the
\* container's closing tag, and every record of the output stands between
\* the container's start tag and its closing tag.
C29_OneInstallInsideRoot ==
    (OneInstalled /\ RootStarts(reader) # {} /\ RootEnds(reader) # {}) =>
        /\ RootStarts(writer) # {}
        /\ RootEnds(writer) # {}
        /\ \E i \in DOMAIN writer :
               /\ writer[i] = One_new_elem(last.elem)
               /\ i < Max(RootEnds(writer))
        /\ \A i \in DOMAIN writer :
               IsElt(writer[i]) =>
                   Min(RootStarts(writer)) < i /\ i < Max(RootEnds(writer))

\* what the output holds when the stream read holds the container: the
\* new record is its last event, after the closing tag
OneInstallAfterRoot ==
    (OneInstalled /\ RootStarts(reader) # {} /\ RootEnds(reader) # {}) =>
        /\ writer[Len(writer)] = One_new_elem(last.elem)
        /\ Max(RootEnds(writer)) < Len(writer)

=============================================================================
